---- MODULE Spec2Model ----
(***************************************************************************)
(* Model of extractor/pdf_outline_extractor.py: PDFOutlineExtractor.       *)
(* A text is a sequence of one-character strings, a font size an integer   *)
(* (sizes are only compared for equality and order), a document a number   *)
(* of pages whose text lines the layout engine reports one by one.         *)
(***************************************************************************)
EXTENDS Integers, Sequences, FiniteSets

VARIABLES source_lines, file_exists, doc_len, heading_levels, pc, raised,
          page_num, segments, pages_data, flattened, level_sizes, headings,
          title_candidate, idx, result

vars == <<source_lines, file_exists, doc_len, heading_levels, pc, raised,
          page_num, segments, pages_data, flattened, level_sizes, headings,
          title_candidate, idx, result>>

(* ------------------------------ bounds --------------------------------- *)
\* most text lines a document holds
MaxLines == 3
\* the page limit the extractor is constructed with
MaxPagesCfg == 2
\* the largest number of heading levels the extractor is constructed with
MaxHeadingLevels == 2

\* a document has at most one page more than the page limit
MaxDocPages == MaxPagesCfg + 1

max_pages == MaxPagesCfg

\* len(text.split()) < 15 in the title test
TitleMaxWords == 15

(* --------------------------- characters -------------------------------- *)
Digit == {"0", "1", "2", "3", "4", "5", "6", "7", "8", "9"}
Space == {" ", "\n", "\t"}
Upper == {"A", "B", "C", "D", "E", "F", "G", "H", "I", "J", "K", "L", "M",
          "N", "O", "P", "Q", "R", "S", "T", "U", "V", "W", "X", "Y", "Z"}
Lower == {"a", "b", "c", "d", "e", "f", "g", "h", "i", "j", "k", "l", "m",
          "n", "o", "p", "q", "r", "s", "t", "u", "v", "w", "x", "y", "z"}

Min(a, b) == IF a <= b THEN a ELSE b

\* the position after the longest run of characters of class, from position i
RunEnd(t, i, class) ==
    CHOOSE j \in i..(Len(t) + 1) :
        /\ \A k \in i..(j - 1) : t[k] \in class
        /\ (j = Len(t) + 1 \/ t[j] \notin class)

\* str.strip()
strip(t) ==
    LET first == RunEnd(t, 1, Space)
        keep  == {i \in 1..Len(t) : t[i] \notin Space}
    IN  IF keep = {} THEN <<>>
        ELSE SubSeq(t, first, CHOOSE i \in keep : \A j \in keep : j <= i)

\* re.sub(r"\s+", " ", text)
RECURSIVE sub_spaces(_)
sub_spaces(t) ==
    IF t = <<>> THEN <<>>
    ELSE IF t[1] \in Space
         THEN <<" ">> \o sub_spaces(SubSeq(t, RunEnd(t, 1, Space), Len(t)))
         ELSE <<t[1]>> \o sub_spaces(Tail(t))

_clean_text(text) == strip(sub_spaces(text))

\* the position after (?:\.\d+)* matched greedily from position i
RECURSIVE GroupEnd(_, _)
GroupEnd(t, i) ==
    IF i + 1 <= Len(t) /\ t[i] = "." /\ t[i + 1] \in Digit
    THEN GroupEnd(t, RunEnd(t, i + 1, Digit))
    ELSE i

\* heading_pattern.match(text): group 1 of ^(\d+(?:\.\d+)*)\s+, <<>> for no match
heading_pattern_match(t) ==
    LET d == RunEnd(t, 1, Digit)
        e == GroupEnd(t, d)
    IN  IF d > 1 /\ e <= Len(t) /\ t[e] \in Space THEN SubSeq(t, 1, e - 1)
        ELSE <<>>

\* m.group(1).count(".") + 1, and 0 without a match
num_level(text) ==
    LET g == heading_pattern_match(text)
    IN  IF g = <<>> THEN 0
        ELSE Cardinality({i \in 1..Len(g) : g[i] = "."}) + 1

\* text.isupper()
isupper(t) ==
    /\ \E i \in 1..Len(t) : t[i] \in Upper
    /\ \A i \in 1..Len(t) : t[i] \notin Lower

\* len(text.split())
word_count(t) ==
    Cardinality({i \in 1..Len(t) :
                    t[i] \notin Space /\ (i = 1 \/ t[i - 1] \in Space)})

\* re.fullmatch(r"\d{1,2}\s+[A-Z]{3,}\s+\d{2,4}", text)
date_fullmatch(t) ==
    LET a == RunEnd(t, 1, Digit)
        b == RunEnd(t, a, Space)
        c == RunEnd(t, b, Upper)
        d == RunEnd(t, c, Space)
        e == RunEnd(t, d, Digit)
    IN  /\ a - 1 \in 1..2
        /\ b > a
        /\ c - b >= 3
        /\ d > c
        /\ e - d \in 2..4
        /\ e = Len(t) + 1

\* re.fullmatch(r"\d+", text)
digits_fullmatch(t) == t # <<>> /\ \A i \in 1..Len(t) : t[i] \in Digit

\* a validity filter that forgets the date pattern
_is_valid_heading_no_date(text) ==
    IF digits_fullmatch(text) THEN FALSE
    ELSE \E i \in 1..Len(text) : text[i] \in Upper \cup Lower

_is_valid_heading(text) ==
    IF date_fullmatch(text) THEN FALSE
    ELSE IF digits_fullmatch(text) THEN FALSE
    ELSE \E i \in 1..Len(text) : text[i] \in Upper \cup Lower

\* f"H{level}"
HLevel(level) == <<"H", level>>

(* ------------------------- the line source ----------------------------- *)
\* one text line of a page: its stripped text, 1-based page, size and weight
segment_of(line, page_number) ==
    [text |-> strip(line.text), page |-> page_number + 1,
     size |-> line.size, bold |-> line.bold]

\* range(min(len(doc), self.max_pages))
pages_to_read(len) == Min(len, max_pages)

(* ---------------------------- the classifier --------------------------- *)
RECURSIVE flatten(_)
flatten(pd) == IF pd = <<>> THEN <<>> ELSE Head(pd) \o flatten(Tail(pd))

\* a classifier without the early return
returns_early_never(flat) == FALSE

\* if not flattened: return {"title": "", "outline": []}
returns_early(flat) == flat = <<>>

\* sorted(size_to_lines.keys(), reverse=True)
RECURSIVE sorted_desc(_)
sorted_desc(S) ==
    IF S = {} THEN <<>>
    ELSE LET m == CHOOSE x \in S : \A y \in S : y <= x
         IN  <<m>> \o sorted_desc(S \ {m})

unique_sizes(flat) == sorted_desc({flat[i].size : i \in 1..Len(flat)})

\* a level table cut to heading_levels entries, the title size not counted
build_level_sizes_short(flat, hl) ==
    LET u == unique_sizes(flat) IN SubSeq(u, 1, Min(Len(u), hl))

build_level_sizes(flat, hl) ==
    LET u == unique_sizes(flat) IN SubSeq(u, 1, Min(Len(u), hl + 1))

_size_to_level(size, sizes) ==
    IF \E i \in 1..Len(sizes) : sizes[i] = size
    THEN (CHOOSE i \in 1..Len(sizes) :
              sizes[i] = size /\ \A j \in 1..(i - 1) : sizes[j] # size) - 1
    ELSE -1

\* a level resolution that lets a size in the table win over the prefix
resolved_level_size_first(seg, sizes, hl) ==
    LET n == num_level(seg.text)
        s == _size_to_level(seg.size, sizes)
    IN  IF s >= 0 THEN s ELSE IF 1 <= n /\ n <= hl THEN n ELSE s

\* the level of one observation after the numeric override
resolved_level(seg, sizes, hl) ==
    LET n == num_level(seg.text)
    IN  IF 1 <= n /\ n <= hl THEN n ELSE _size_to_level(seg.size, sizes)

\* a title test that forgets the page
title_accepts_any_page(seg) ==
    seg.bold \/ isupper(seg.text) \/ word_count(seg.text) < TitleMaxWords

title_accepts(seg) ==
    seg.page <= 1 /\ (seg.bold \/ isupper(seg.text)
                        \/ word_count(seg.text) < TitleMaxWords)

\* a title update in which the last candidate wins
last_wins(candidate, text) == text

\* title_candidate = title_candidate or text
first_truthy(candidate, text) == IF candidate # <<>> THEN candidate ELSE text

\* no deduplication
dedupe_none(hs, last) == hs

\* the loop of lines 179-184
RECURSIVE dedupe(_, _)
dedupe(hs, last) ==
    IF hs = <<>> THEN <<>>
    ELSE (IF last = <<>> \/ Head(hs) # last[1] THEN <<Head(hs)>> ELSE <<>>)
             \o dedupe(Tail(hs), <<Head(hs)>>)

\* a fallback that takes the last line of the largest size
fallback_title_last(flat, sizes) ==
    LET large == {i \in 1..Len(flat) : flat[i].size = sizes[1]}
    IN  IF large = {} THEN <<>>
        ELSE flat[CHOOSE i \in large : \A j \in large : j <= i].text

fallback_title(flat, sizes) ==
    LET large == {i \in 1..Len(flat) : flat[i].size = sizes[1]}
    IN  IF large = {} THEN <<>>
        ELSE flat[CHOOSE i \in large : \A j \in large : i <= j].text

(* ------------------------------ state ---------------------------------- *)
NoResult == [title |-> <<>>, outline |-> <<>>]

\* L: the lines the layout engine may report for this document
InitOver(L) ==
    /\ source_lines = L
    /\ file_exists \in BOOLEAN
    /\ doc_len \in (IF file_exists THEN 0..MaxDocPages ELSE {0})
    /\ heading_levels \in 1..MaxHeadingLevels
    /\ pc = "extract"
    /\ raised = "none"
    /\ page_num = 0
    /\ segments = <<>>
    /\ pages_data = <<>>
    /\ flattened = <<>>
    /\ level_sizes = <<>>
    /\ headings = <<>>
    /\ title_candidate = <<>>
    /\ idx = 0
    /\ result = NoResult

(* ------------------------------ actions -------------------------------- *)
\* extract: the file does not exist
ExtractFileNotFound ==
    /\ pc = "extract"
    /\ ~file_exists
    /\ raised' = "ValueError"
    /\ pc' = "raised"
    /\ UNCHANGED <<source_lines, file_exists, doc_len, heading_levels,
                   page_num, segments, pages_data, flattened, level_sizes,
                   headings, title_candidate, idx, result>>

\* extract: the file exists and the backend opens it
ExtractOpen ==
    /\ pc = "extract"
    /\ file_exists
    /\ pc' = "read"
    /\ UNCHANGED <<source_lines, file_exists, doc_len, heading_levels,
                   raised, page_num, segments, pages_data, flattened,
                   level_sizes, headings, title_candidate, idx, result>>

\* the backend reads one more line of the current page
ReadLine ==
    /\ pc = "read"
    /\ page_num < pages_to_read(doc_len)
    /\ Len(flatten(pages_data)) + Len(segments) < MaxLines
    /\ \E line \in source_lines :
           segments' = IF strip(line.text) # <<>>
                       THEN Append(segments, segment_of(line, page_num))
                       ELSE segments
    /\ UNCHANGED <<source_lines, file_exists, doc_len, heading_levels, pc,
                   raised, page_num, pages_data, flattened, level_sizes,
                   headings, title_candidate, idx, result>>

\* the backend has read the current page
EndPage ==
    /\ pc = "read"
    /\ page_num < pages_to_read(doc_len)
    /\ pages_data' = IF segments # <<>> THEN Append(pages_data, segments)
                     ELSE pages_data
    /\ segments' = <<>>
    /\ page_num' = page_num + 1
    /\ UNCHANGED <<source_lines, file_exists, doc_len, heading_levels, pc,
                   raised, flattened, level_sizes, headings,
                   title_candidate, idx, result>>

\* the backend has read every page within the limit: the document is
\* closed and _process_segments is called
CloseAndProcess ==
    /\ pc = "read"
    /\ page_num = pages_to_read(doc_len)
    /\ doc_len' = 0
    /\ pc' = "process"
    /\ UNCHANGED <<source_lines, file_exists, heading_levels, raised,
                   page_num, segments, pages_data, flattened, level_sizes, headings,
                   title_candidate, idx, result>>

\* _process_segments up to the classification loop
ProcessSegmentsBegin ==
    /\ pc = "process"
    /\ flattened' = flatten(pages_data)
    /\ IF returns_early(flattened')
       THEN /\ result' = [title |-> <<>>, outline |-> <<>>]
            /\ pc' = "done"
            /\ UNCHANGED <<level_sizes, idx>>
       ELSE /\ level_sizes' = build_level_sizes(flattened', heading_levels)
            /\ idx' = 1
            /\ pc' = IF flattened' # <<>> THEN "classify" ELSE "finish"
            /\ UNCHANGED result
    /\ UNCHANGED <<source_lines, file_exists, doc_len, heading_levels,
                   raised, page_num, segments, pages_data, headings,
                   title_candidate>>

\* one iteration of the classification loop
ClassifyLine ==
    /\ pc = "classify"
    /\ idx <= Len(flattened)
    /\ LET seg   == flattened[idx]
           level == resolved_level(seg, level_sizes, heading_levels)
           clean == _clean_text(seg.text)
       IN  /\ title_candidate' =
                  IF level = 0 /\ title_accepts(seg)
                  THEN first_truthy(title_candidate, seg.text)
                  ELSE title_candidate
           /\ headings' =
                  IF 1 <= level /\ level <= heading_levels
                               /\ _is_valid_heading(clean)
                  THEN Append(headings, [level |-> HLevel(level),
                                         text |-> clean,
                                         page |-> seg.page])
                  ELSE headings
    /\ idx' = idx + 1
    /\ pc' = IF idx = Len(flattened) THEN "finish" ELSE "classify"
    /\ UNCHANGED <<source_lines, file_exists, doc_len, heading_levels,
                   raised, page_num, segments, pages_data, flattened,
                   level_sizes, result>>

\* the title fallback, the deduplication and the return
ProcessSegmentsFinish ==
    /\ pc = "finish"
    /\ IF title_candidate = <<>> /\ level_sizes = <<>>
       THEN \* large_size = level_sizes[0] on an empty list
            /\ raised' = "IndexError"
            /\ pc' = "raised"
            /\ UNCHANGED result
       ELSE /\ LET title == IF title_candidate = <<>>
                            THEN fallback_title(flattened, level_sizes)
                            ELSE title_candidate
               IN  result' = [title |-> _clean_text(title),
                              outline |-> dedupe(headings, <<>>)]
            /\ pc' = "done"
            /\ UNCHANGED raised
    /\ UNCHANGED <<source_lines, file_exists, doc_len, heading_levels,
                   page_num, segments, pages_data, flattened,
                   level_sizes, headings, title_candidate, idx>>

Next ==
    \/ ExtractFileNotFound
    \/ ExtractOpen
    \/ ReadLine
    \/ EndPage
    \/ CloseAndProcess
    \/ ProcessSegmentsBegin
    \/ ClassifyLine
    \/ ProcessSegmentsFinish

(* ------------------------------ texts ---------------------------------- *)
TxtTitle    == <<"P", "r", " ", "P", "l">>
TxtUpper    == <<"A", "B">>
TxtPlain    == <<"I", "n">>
TxtSpaced   == <<"I", "n", " ", "\n", "d", " ">>
TxtBlank    == <<" ">>
TxtNum1     == <<"1", " ", "A", "b">>
TxtNum2     == <<"2", ".", "1", " ", "B", "g">>
TxtNum3     == <<"2", ".", "3", ".", "4", " ", "C">>
TxtNum4     == <<"1", ".", "2", ".", "3", ".", "4", " ", "F">>
TxtNumDot   == <<"1", ".", " ", "I", "n">>
TxtDate     == <<"1", "8", " ", "J", "U", "N", " ", "1", "3">>
TxtDigits   == <<"4", "2">>
TxtNoAlpha  == <<"-", "-">>
\* TitleMaxWords words of one letter
TxtLong     == [i \in 1..(2 * TitleMaxWords - 1) |->
                   IF i % 2 = 1 THEN "w" ELSE " "]
TxtLongUp   == [i \in 1..(2 * TitleMaxWords - 1) |->
                   IF i % 2 = 1 THEN "W" ELSE " "]

LinesOf(T, S, B) == [text : T, size : S, bold : B]

LinesPlain ==
    LinesOf({TxtPlain}, {12, 16, 20}, {FALSE})
        \cup LinesOf({TxtNum1}, {12}, {FALSE})
Init == InitOver(LinesPlain)
Spec == Init /\ [][Next]_vars

(* ---------------- the vocabulary of the statements below --------------- *)
Range(f) == {f[i] : i \in 1..Len(f)}

\* the distinct font sizes of the observations
DistinctSizes == {flattened[i].size : i \in 1..Len(flattened)}

\* how many distinct sizes are larger than s
SizeRank(s) == Cardinality({x \in DistinctSizes : x > s})

\* the tier of a size: 0 the title tier, 1..heading_levels, -1 otherwise
SizeTier(s) ==
    IF s \in DistinctSizes /\ SizeRank(s) <= heading_levels
    THEN SizeRank(s) ELSE -1

\* t starts with k numbers separated by single dots, then whitespace
DottedPrefix(t, k) ==
    /\ t # <<>>
    /\ t[1] \in Digit
    /\ \E e \in 2..Len(t) :
        /\ t[e] \in Space
        /\ \A i \in 1..(e - 1) : t[i] \in Digit \cup {"."}
        /\ t[e - 1] \in Digit
        /\ \A i \in 1..(e - 2) : ~(t[i] = "." /\ t[i + 1] = ".")
        /\ Cardinality({i \in 1..(e - 1) : t[i] = "."}) = k - 1

Components(t) ==
    IF \E k \in 1..Len(t) : DottedPrefix(t, k)
    THEN CHOOSE k \in 1..Len(t) : DottedPrefix(t, k)
    ELSE 0

InRange(k) == 1 <= k /\ k <= heading_levels

\* numeric level when in range, the size tier otherwise
Resolved(seg) ==
    IF InRange(Components(seg.text)) THEN Components(seg.text)
    ELSE SizeTier(seg.size)

AllIn(t, from, to, class) == \A i \in from..to : t[i] \in class

\* 1-2 digits, whitespace, 3 or more upper-case letters, whitespace, 2-4 digits
DateLike(t) ==
    \E a \in 1..2 : a < Len(t) /\ AllIn(t, 1, a, Digit) /\
    \E b \in (a + 1)..Len(t) : AllIn(t, a + 1, b, Space) /\
    \E c \in (b + 3)..Len(t) : AllIn(t, b + 1, c, Upper) /\
    \E d \in (c + 1)..Len(t) : AllIn(t, c + 1, d, Space) /\
        Len(t) - d \in 2..4 /\ AllIn(t, d + 1, Len(t), Digit)

OnlyDigits(t) == t # <<>> /\ AllIn(t, 1, Len(t), Digit)
HasLetter(t) == \E i \in 1..Len(t) : t[i] \in Upper \cup Lower
ValidText(t) == ~DateLike(t) /\ ~OnlyDigits(t) /\ HasLetter(t)

\* no whitespace at either end, and every whitespace a single space
IsCleaned(t) ==
    \A i \in 1..Len(t) :
        t[i] \in Space => /\ t[i] = " "
                          /\ 1 < i /\ i < Len(t)
                          /\ t[i + 1] \notin Space

HeadingOf(seg, k) ==
    [level |-> HLevel(k), text |-> _clean_text(seg.text), page |-> seg.page]

Classifying == pc = "classify"
Classified == pc \in {"classify", "finish", "done"} /\ flattened # <<>>
Returned == pc = "done"

(* ------------------------------- C1 ------------------------------------ *)
LinesNumeric ==
    LinesOf({TxtNum1}, {12, 16, 20}, {FALSE})
        \cup LinesOf({TxtNum2}, {16, 20}, {FALSE})
        \cup LinesOf({TxtDate}, {16}, {FALSE})
SpecNumeric == InitOver(LinesNumeric) /\ [][Next]_vars

\* C1: an observation whose text starts with a dotted numeric prefix of k
\* components and whitespace, 1 <= k <= heading_levels, is classified at
\* level k whatever its font size: it is never a title candidate, it is
\* appended as "H<k>" exactly when its cleaned text is valid, and no heading
\* of the outline with such a prefix carries another level.
C1_NumericOverride ==
    /\ [](\A h \in Range(result.outline) :
             InRange(Components(h.text)) =>
                 h.level = HLevel(Components(h.text)))
    /\ [][(Classifying /\ InRange(Components(flattened[idx].text))) =>
            LET seg == flattened[idx]
                h   == HeadingOf(seg, Components(seg.text))
            IN  /\ title_candidate' = title_candidate
                /\ headings' = IF ValidText(h.text) THEN Append(headings, h)
                               ELSE headings]_vars

\* a returned outline holding "H<k>" headings of a prefixed line at the
\* title-tier size and of one at a size absent from the level table
C1_Witness ==
    /\ Returned
    /\ \E i, j \in 1..Len(flattened) :
          LET a == flattened[i]
              b == flattened[j]
          IN  /\ InRange(Components(a.text)) /\ SizeTier(a.size) = 0
              /\ InRange(Components(b.text)) /\ SizeTier(b.size) = -1
              /\ HeadingOf(a, Components(a.text)) \in Range(result.outline)
              /\ HeadingOf(b, Components(b.text)) \in Range(result.outline)

(* ------------------------------- C2 ------------------------------------ *)
LinesSizes ==
    LinesOf({TxtPlain}, {12, 16, 20}, {FALSE})
        \cup LinesOf({TxtUpper}, {12, 16}, {FALSE})
        \cup LinesOf({TxtDigits}, {16}, {FALSE})
SpecSizes == InitOver(LinesSizes) /\ [][Next]_vars

\* C2: for a non-empty observation sequence the level table is the distinct
\* sizes in strictly decreasing order cut to heading_levels + 1 entries,
\* _size_to_level maps the k-th largest size (from 0) to k and any other
\* size to -1, a line without numeric prefix at the k-th largest size,
\* 1 <= k <= heading_levels, becomes "H<k>" when valid, and every heading
\* level is one of H1..H<heading_levels>.
C2_LevelTable ==
    /\ [](Classified =>
            /\ \A i, j \in 1..Len(level_sizes) :
                   i < j => level_sizes[i] > level_sizes[j]
            /\ Len(level_sizes) =
                   Min(Cardinality(DistinctSizes), heading_levels + 1)
            /\ \A i \in 1..Len(level_sizes) :
                   /\ level_sizes[i] \in DistinctSizes
                   /\ SizeRank(level_sizes[i]) = i - 1
            /\ \A s \in DistinctSizes \cup {0, 14} :
                   _size_to_level(s, level_sizes) = SizeTier(s)
            /\ \A h \in Range(headings) \cup Range(result.outline) :
                   \E k \in 1..heading_levels : h.level = HLevel(k))
    /\ [][(Classifying /\ Components(flattened[idx].text) = 0
                      /\ InRange(SizeTier(flattened[idx].size))) =>
            LET seg == flattened[idx]
                h   == HeadingOf(seg, SizeTier(seg.size))
            IN  headings' = IF ValidText(h.text) THEN Append(headings, h)
                            ELSE headings]_vars

\* sizes 20, 16, 12 with two heading levels: the line at 16 is H1, at 12 H2
C2_Witness ==
    /\ Returned
    /\ heading_levels = 2
    /\ level_sizes = <<20, 16, 12>>
    /\ \E i, j \in 1..Len(flattened) :
          /\ flattened[i].size = 16 /\ flattened[j].size = 12
          /\ Components(flattened[i].text) = 0
          /\ Components(flattened[j].text) = 0
          /\ HeadingOf(flattened[i], 1) \in Range(result.outline)
          /\ HeadingOf(flattened[j], 2) \in Range(result.outline)

(* ------------------------------- C3 ------------------------------------ *)
LinesTitle ==
    LinesOf({TxtSpaced, TxtLongUp}, {20}, {FALSE})
        \cup LinesOf({TxtLong}, {20}, {FALSE, TRUE})
        \cup LinesOf({TxtPlain}, {12}, {FALSE})
SpecTitle == InitOver(LinesTitle) /\ [][Next]_vars

\* the title test of one observation
Accepted(seg) ==
    /\ Resolved(seg) = 0
    /\ seg.page <= 1
    /\ (seg.bold \/ isupper(seg.text) \/ word_count(seg.text) < TitleMaxWords)

AcceptedAt == {i \in 1..Len(flattened) : Accepted(flattened[i])}
FirstOf(S) == CHOOSE i \in S : \A j \in S : i <= j

\* C3: in the classification pass an observation becomes the title
\* candidate only if its resolved level is 0, its page is <= 1 and it is
\* bold, upper-case or shorter than 15 words; the first such observation
\* sets the candidate, a candidate once set is never replaced, and the
\* returned title is the cleaned text of the first accepted observation.
C3_FirstTitleWins ==
    /\ [][Classifying =>
            /\ (title_candidate' # title_candidate =>
                    /\ Accepted(flattened[idx])
                    /\ title_candidate' = flattened[idx].text)
            /\ (Accepted(flattened[idx]) /\ title_candidate = <<>> =>
                    title_candidate' = flattened[idx].text)]_vars
    /\ [][title_candidate # <<>> => title_candidate' = title_candidate]_vars
    /\ []((Returned /\ AcceptedAt # {}) =>
            result.title = _clean_text(flattened[FirstOf(AcceptedAt)].text))

\* two accepted candidates with different texts: the first is the title
C3_Witness ==
    /\ Returned
    /\ \E i, j \in AcceptedAt :
          /\ i < j
          /\ i = FirstOf(AcceptedAt)
          /\ _clean_text(flattened[i].text) # _clean_text(flattened[j].text)
          /\ flattened[i].text # _clean_text(flattened[i].text)
          /\ result.title = _clean_text(flattened[i].text)

(* ------------------------------- C4 ------------------------------------ *)
LinesFallback ==
    LinesOf({TxtLong, TxtNum2, TxtSpaced}, {20}, {FALSE})
        \cup LinesOf({TxtTitle}, {20}, {TRUE})
        \cup LinesOf({TxtPlain}, {12}, {FALSE})
SpecFallback == InitOver(LinesFallback) /\ [][Next]_vars

LargestAt ==
    {i \in 1..Len(flattened) :
        \A j \in 1..Len(flattened) : flattened[j].size <= flattened[i].size}

\* C4: when the pass accepted no title candidate the returned title is the
\* cleaned text of the first observation of the largest size, whatever its
\* page, weight, length or prefix; the title is empty only if there is no
\* observation of the largest size.
C4_TitleFallback ==
    /\ (Returned /\ flattened # <<>> /\ AcceptedAt = {}) =>
           /\ LargestAt # {}
           /\ result.title = _clean_text(flattened[FirstOf(LargestAt)].text)
    /\ (Returned /\ result.title = <<>>) => LargestAt = {}

\* no candidate accepted although a title-tier line of 15 words stands on
\* page 1; the first line of the largest size, which has a numeric prefix
\* and is a heading, gives the title
C4_Witness ==
    /\ Returned
    /\ AcceptedAt = {}
    /\ \E i \in 1..Len(flattened) :
          Resolved(flattened[i]) = 0 /\ flattened[i].page <= 1
    /\ LET f == flattened[FirstOf(LargestAt)]
       IN  /\ InRange(Components(f.text))
           /\ result.title = _clean_text(f.text)
           /\ result.title # <<>>

(* ------------------------------- C5 ------------------------------------ *)
LinesValid ==
    LinesOf({TxtPlain}, {20}, {FALSE})
        \cup LinesOf({TxtDate, TxtDigits, TxtNoAlpha, TxtSpaced, TxtUpper},
                     {16}, {FALSE})
SpecValid == InitOver(LinesValid) /\ [][Next]_vars

\* C5: no heading, accepted or returned, has a text that is date-like as a
\* whole, consists of digits only or has no letter, and every heading text
\* is whitespace-cleaned.
C5_ValidHeadings ==
    \A h \in Range(headings) \cup Range(result.outline) :
        /\ ~DateLike(h.text)
        /\ ~OnlyDigits(h.text)
        /\ HasLetter(h.text)
        /\ IsCleaned(h.text)

\* a date, a number and a text without letters at a heading-tier size are
\* left out, a heading whose raw text held a whitespace run is returned
C5_Witness ==
    /\ Returned
    /\ \E i, j \in 1..Len(flattened) :
          /\ InRange(Resolved(flattened[i]))
          /\ DateLike(_clean_text(flattened[i].text))
          /\ InRange(Resolved(flattened[j]))
          /\ ~IsCleaned(flattened[j].text)
          /\ result.outline = <<HeadingOf(flattened[j], Resolved(flattened[j]))>>

(* ------------------------------- C6 ------------------------------------ *)
LinesDedupe ==
    LinesOf({TxtNum1, TxtNum2, TxtPlain}, {16}, {FALSE})
        \cup LinesOf({TxtPlain, TxtNum1}, {20}, {FALSE})
SpecDedupe == InitOver(LinesDedupe) /\ [][Next]_vars

\* the places of the headings that differ from their predecessor
KeptAt == {i \in 1..Len(headings) : i = 1 \/ headings[i] # headings[i - 1]}
NthOf(S, n) == CHOOSE i \in S : Cardinality({j \in S : j <= i}) = n

\* C6: the returned outline is the accepted headings in scan order with
\* every run of identical consecutive headings cut to its first element: no
\* two neighbours of the outline are identical, and a heading that recurs
\* after a different one is kept.
C6_Dedupe ==
    Returned =>
        /\ Len(result.outline) = Cardinality(KeptAt)
        /\ \A n \in 1..Len(result.outline) :
               result.outline[n] = headings[NthOf(KeptAt, n)]
        /\ \A n \in 1..(Len(result.outline) - 1) :
               result.outline[n] # result.outline[n + 1]

\* two identical headings in a row, then a different one: two are returned
C6_Witness ==
    /\ Returned
    /\ Len(headings) = 3
    /\ headings[1] = headings[2]
    /\ headings[2] # headings[3]
    /\ result.outline = <<headings[1], headings[3]>>

(* ------------------------------- C7 ------------------------------------ *)
LinesTotal ==
    LinesOf({TxtPlain, TxtNum1}, {-2, 0, 12}, {FALSE})
        \cup LinesOf({TxtBlank}, {12}, {FALSE})
SpecTotal == InitOver(LinesTotal) /\ [][Next]_vars

\* C7: _process_segments raises nothing: the only exception is extract's
\* ValueError for a missing file, the loop index stays inside the
\* observations, the level table read by the fallback is not empty, and
\* what is returned is an outline record, for empty documents, pages
\* without lines, a single line and non-positive sizes alike; without
\* observations the record is exactly {title: "", outline: []}.
C7_Total ==
    /\ raised = "none" \/ (raised = "ValueError" /\ ~file_exists)
    /\ pc \in {"process", "classify", "finish", "done"} => raised = "none"
    /\ pc = "raised" => ~file_exists
    /\ pc = "classify" => idx \in 1..Len(flattened)
    /\ pc = "finish" => level_sizes # <<>> /\ idx = Len(flattened) + 1
    /\ Returned =>
           /\ DOMAIN result = {"title", "outline"}
           /\ flattened = <<>> => result = [title |-> <<>>, outline |-> <<>>]

\* a document whose pages hold no text line returns the empty record
C7_Witness ==
    /\ Returned
    /\ page_num >= 2
    /\ pages_data = <<>>
    /\ result = [title |-> <<>>, outline |-> <<>>]

(* ------------------------------- C8 ------------------------------------ *)
\* C8: extract raises ValueError, before _process_segments is entered, if
\* the file does not exist or if the document has more than max_pages pages.
C8_RaisesOverLimit ==
    [][(pc \in {"extract", "read"}
            /\ (~file_exists \/ doc_len > max_pages)) =>
           /\ pc' # "process"
           /\ (pc' # pc => pc' = "read" \/ raised' = "ValueError")]_vars

(* ------------------------------- C9 ------------------------------------ *)
LinesDiscard ==
    LinesOf({TxtNum4}, {12, 16, 20}, {FALSE})
        \cup LinesOf({TxtPlain}, {16, 20}, {FALSE})
        \cup LinesOf({TxtNum2}, {12}, {FALSE})
SpecDiscard == InitOver(LinesDiscard) /\ [][Next]_vars

Untouched == UNCHANGED <<headings, title_candidate>>

\* C9 as amended: an observation whose resolved level is neither 0 on a
\* page <= 1 nor in 1..heading_levels (resolved level 0 on a later page, or
\* resolved level -1) is neither appended nor made the title candidate; an
\* out-of-range numeric prefix leaves the observation to its size level.
C9_Discarded ==
    [][(Classifying
          /\ ~(Resolved(flattened[idx]) = 0 /\ flattened[idx].page <= 1)
          /\ ~InRange(Resolved(flattened[idx]))) => Untouched]_vars

\* C9 as claimed: an observation with resolved level 0 on a page > 1, with
\* size level -1, or with an out-of-range numeric prefix is neither appended
\* nor made the title candidate.
C9_AsClaimed ==
    [][(Classifying
          /\ \/ (Resolved(flattened[idx]) = 0 /\ flattened[idx].page > 1)
             \/ SizeTier(flattened[idx].size) = -1
             \/ Components(flattened[idx].text) > heading_levels)
        => Untouched]_vars

\* a title-tier line on page 2 and a line of an absent size with an
\* out-of-range prefix were classified, and nothing came of them
C9_Witness ==
    /\ Returned
    /\ title_candidate = <<>>
    /\ \E i, j \in 1..Len(flattened) :
          /\ Resolved(flattened[i]) = 0 /\ flattened[i].page > 1
          /\ Components(flattened[j].text) > heading_levels
          /\ Resolved(flattened[j]) = -1
          /\ \A h \in Range(result.outline) :
                 /\ h.text # _clean_text(flattened[i].text)
                 /\ h.text # _clean_text(flattened[j].text)

(* ------------------------------- C10 ----------------------------------- *)
LinesDotted ==
    LinesOf({TxtNumDot}, {12, 20}, {FALSE})
        \cup LinesOf({TxtNum2, TxtNum3}, {12}, {FALSE})
        \cup LinesOf({TxtPlain}, {20}, {FALSE})
SpecDotted == InitOver(LinesDotted) /\ [][Next]_vars

\* t starts with a number, a dot and whitespace ("1. Introduction")
NumberDotPrefix(t) ==
    \E e \in 2..(Len(t) - 1) :
        AllIn(t, 1, e - 1, Digit) /\ t[e] = "." /\ t[e + 1] \in Space

\* the level the documentation gives a numeric heading
DocumentedLevel(t) == IF NumberDotPrefix(t) THEN 1 ELSE Components(t)

\* C10: both documented prefix forms are recognised: "1. " at level 1,
\* "2.1 " at level 2, "2.3.4 " at level 3; a line so recognised within
\* 1..heading_levels is classified at that level.
C10_BothForms ==
    [][(Classifying /\ InRange(DocumentedLevel(flattened[idx].text))) =>
          LET seg == flattened[idx]
              h   == HeadingOf(seg, DocumentedLevel(seg.text))
          IN  /\ title_candidate' = title_candidate
              /\ headings' = IF ValidText(h.text) THEN Append(headings, h)
                             ELSE headings]_vars

====
